---- MODULE Spec2Model ----
(***************************************************************************)
(* Model of live/python/moveris_client.py: one MoverisClient session run   *)
(* by main(), i.e. start_streaming() followed by main's own disconnect().  *)
(*                                                                         *)
(* Three asyncio tasks exist: the main task (main -> start_streaming ->    *)
(* connect/authenticate/open_camera/gather/disconnect), the producer       *)
(* (stream_frames) and the consumer (handle_messages).  asyncio schedules  *)
(* cooperatively: a task runs until its next await, so every action below  *)
(* of one task requires the other tasks to be parked at an await.          *)
(*                                                                         *)
(* Time.  time.time() is kept relative to the current instant: the reading *)
(* of the clock is always Now = 0 and a stored timestamp t is kept as the  *)
(* offset t - now (<= 0 for the past, > 0 for a timer in the future).      *)
(* When d ticks pass every stored timestamp moves d further into the past. *)
(* Differences such as time.time() - start_time are therefore written as   *)
(* in the source.  Past timestamps other than authenticate's start_time    *)
(* are no longer told apart once they are a second old (two seconds for    *)
(* last_frame_time).                                                       *)
(***************************************************************************)
EXTENDS Integers, Sequences, FiniteSets, TLC

\* ------------------------------------------------------------------------
\* Bounds of the model (not program constants)
\* ------------------------------------------------------------------------
\* clock ticks per second of time.time()
TicksPerSecond == 1
\* frames the camera delivers before every further read fails
MaxFrames == 2
\* inbound messages the server sends in one session
MaxMsgs == 2
\* the same two bounds for the late phase of a session (TrackerSpec)
TrackerFrames == 1
TrackerMsgs == 1

\* ------------------------------------------------------------------------
\* Program constants
\* ------------------------------------------------------------------------
AUTH_TIMEOUT == 10
RECV_TIMEOUT == 1
SEND_TIMES_KEEP == 1000
ACK_TIMES_KEEP == 50
MS_PER_SECOND == 1000

\* frame_rate values read by main(): 0 makes 1.0 / frame_rate fault
FrameRates == {0, 1}

VARIABLES
  \* ---- MoverisClient fields (__init__)
  frame_rate, websocket, is_authenticated, is_streaming, frame_count,
  server_buffer, connection_start, send_times, ack_times, camera,
  \* ---- main task: main -> start_streaming -> connect/authenticate/... 
  pc,           \* position of the main task
  dret,         \* call site the running disconnect() returns to
  ss_result,    \* how start_streaming ended: "none", "true", "false", "raised"
  start_time,   \* authenticate's local start_time
  m_deadline,   \* end of the wait_for(recv, 1.0) authenticate is parked on
  \* ---- producer task: stream_frames
  ppc, last_frame_time, sleep_until,
  \* ---- consumer task: handle_messages
  cpc, c_deadline, c_exit,
  \* ---- environment: transport, camera, server
  link,         \* "none", "up", "down" (dropped), "closed" (closed by the client)
  device_held,  \* the OS capture device is held by the process
  budget,       \* frames the camera still delivers
  inbox,        \* messages the server still sends
  \* ---- history of what the session did (for stating the claims)
  tx,           \* frame messages handed to websocket.send, with their outcome
  skipped,      \* a capture failed since the last frame message was built
  ws_opens, ws_closes, cam_opens, cam_releases,
  disc_log,     \* one entry per finished disconnect() call: call site and outcome
  reacks,       \* frame_received messages handled for a sent frame no longer pending
  auth_result   \* why authenticate returned

vars == << frame_rate, websocket, is_authenticated, is_streaming, frame_count,
           server_buffer, connection_start, send_times, ack_times, camera,
           pc, dret, ss_result, start_time, m_deadline,
           ppc, last_frame_time, sleep_until,
           cpc, c_deadline, c_exit,
           link, device_held, budget, inbox,
           tx, skipped, ws_opens, ws_closes, cam_opens, cam_releases,
           disc_log, reacks, auth_result >>

clientVars == << frame_rate, websocket, is_authenticated, is_streaming,
                 frame_count, server_buffer, send_times, ack_times, camera >>
mainVars == << pc, dret, ss_result, start_time, m_deadline, auth_result >>
prodVars == << ppc, last_frame_time, sleep_until >>
consVars == << cpc, c_deadline, c_exit >>
envVars  == << link, device_held, budget, inbox >>
histVars == << tx, skipped, ws_opens, ws_closes, cam_opens, cam_releases,
              disc_log, reacks >>

\* ------------------------------------------------------------------------
\* Python values and time
\* ------------------------------------------------------------------------
None == <<>>
Some(x) == <<x>>
Max(a, b) == IF a >= b THEN a ELSE b
Min(a, b) == IF a <= b THEN a ELSE b

\* time.time(): the current instant is the origin of every stored offset
Now == 0

\* age (ticks) beyond which past timestamps are not told apart: one second
Horizon == TicksPerSecond

\* the same for last_frame_time, a local of stream_frames that is compared
\* with frame_interval (at most a second): two seconds
PaceHorizon == 2 * TicksPerSecond

\* a past timestamp t after d more ticks
Older(t, d) == Max(t - d, 0 - Horizon)
\* a timer set for the future after d more ticks (0: due)
Nearer(t, d) == Max(t - d, 0)

timeout == AUTH_TIMEOUT * TicksPerSecond
recv_timeout == RECV_TIMEOUT * TicksPerSecond

\* d ticks pass: every stored timestamp is d further in the past.
\* start_time is bounded by authenticate itself and is not cut at Horizon.
Elapse(d) ==
  /\ connection_start' = IF connection_start = None THEN None
                         ELSE Some(Older(connection_start[1], d))
  /\ send_times' = [k \in DOMAIN send_times |-> Older(send_times[k], d)]
  /\ last_frame_time' = IF ppc \in {"idle", "ready", "done", "raised"}
                           THEN last_frame_time
                           ELSE Max(last_frame_time - d, 0 - PaceHorizon)
  /\ start_time' = IF pc \in {"auth_loop", "auth_recv"} THEN start_time - d ELSE start_time
  /\ m_deadline' = Nearer(m_deadline, d)
  /\ c_deadline' = Nearer(c_deadline, d)
  /\ sleep_until' = Nearer(sleep_until, d)


\* ------------------------------------------------------------------------
\* Inbound messages (what websocket.recv() can return)
\* ------------------------------------------------------------------------
\* result: what data.get("result", {}) yields, an "object" (also when the
\* field is absent) or some "other" JSON value
Msg(shape, type, fn, tf) ==
  [shape |-> shape, type |-> type, frame_number |-> fn, total_frames |-> tf,
   result |-> "object"]

\* frame numbers the server acknowledges: the newest frame and its
\* neighbours, and the frames where send_times is trimmed (the last one
\* trimmed and the first one kept)
AckNumbers ==
  {n \in (frame_count - 1)..(frame_count + 1) : n >= 0}
  \cup {n \in (frame_count - SEND_TIMES_KEEP)..(frame_count - SEND_TIMES_KEEP + 1) : n >= 1}

\* total_frames values the server reports
BacklogValues == {3}

MsgTypes == {"auth_success", "error", "processing_started",
             "processing_complete", "disconnect", "other", "missing"}

Messages ==
  {Msg("malformed", "", None, None), Msg("nonobject", "", None, None)}
  \cup {[Msg("object", "processing_complete", None, None) EXCEPT !.result = "other"]}
  \cup {Msg("object", t, None, None) : t \in MsgTypes}
  \cup {Msg("object", "frame_received", fn, tf) :
          fn \in {None} \cup {Some(n) : n \in AckNumbers},
          tf \in {None} \cup {Some(b) : b \in BacklogValues}}

\* recv() returns a message: the connection is up and the server still talks
CanReceive == link = "up" /\ inbox > 0
\* recv()/send() raise ConnectionClosed: dropped, or closed by disconnect()
TransportDead == link # "up"

\* ------------------------------------------------------------------------
\* Cooperative scheduling: a task runs from one await to the next
\* ------------------------------------------------------------------------
MainParked == pc \in {"connecting", "auth_sending", "auth_recv", "gather",
                      "closing", "exit", "crashed"}
\* a suspension point between the capture and the numbering of the frame
ProdParkedBeforeNumbering ==
  ppc \in {"idle", "ready", "send_frame", "send", "sleep", "done", "raised",
           "cancelled"}

ProdParked == ppc \in {"idle", "ready", "send", "sleep", "done", "raised", "cancelled"}
ConsParked == cpc \in {"idle", "ready", "recv", "done", "cancelled"}

MainRuns == ProdParked /\ ConsParked
ProdRuns == MainParked /\ ConsParked
ConsRuns == MainParked /\ ProdParked

\* ------------------------------------------------------------------------
\* __init__
\* ------------------------------------------------------------------------
Init ==
  /\ frame_rate \in FrameRates
  /\ websocket = "None" /\ is_authenticated = FALSE /\ is_streaming = FALSE
  /\ frame_count = 0 /\ server_buffer = 0 /\ connection_start = None
  /\ send_times = << >> /\ ack_times = << >> /\ camera = "None"
  /\ pc = "start" /\ dret = "none" /\ ss_result = "none"
  /\ start_time = 0 /\ m_deadline = 0
  /\ ppc = "idle" /\ last_frame_time = 0 /\ sleep_until = 0
  /\ cpc = "idle" /\ c_deadline = 0 /\ c_exit = "none"
  /\ link = "none" /\ device_held = FALSE /\ budget = MaxFrames /\ inbox = MaxMsgs
  /\ tx = << >> /\ skipped = FALSE /\ ws_opens = 0 /\ ws_closes = 0 /\ cam_opens = 0
  /\ cam_releases = 0 /\ disc_log = << >> /\ reacks = 0 /\ auth_result = "none"

\* ------------------------------------------------------------------------
\* connect
\* ------------------------------------------------------------------------
\* start_streaming line 300 -> connect line 60: await websockets.connect(...)
ConnectBegin ==
  /\ pc = "start" /\ MainRuns
  /\ pc' = "connecting"
  /\ UNCHANGED << clientVars, connection_start, dret, ss_result, start_time,
                  m_deadline, auth_result, prodVars, consVars, envVars, histVars >>

\* lines 60-65: the connection is made; connection_start = time.time()
ConnectOk ==
  /\ pc = "connecting" /\ MainRuns
  /\ websocket' = "ws" /\ link' = "up" /\ ws_opens' = ws_opens + 1
  /\ connection_start' = Some(Now)
  /\ pc' = "authenticate"
  /\ UNCHANGED << frame_rate, is_authenticated, is_streaming, frame_count,
                  server_buffer, send_times, ack_times, camera, dret, ss_result,
                  start_time, m_deadline, auth_result, prodVars, consVars,
                  device_held, budget, inbox, tx, skipped, ws_closes,
                  cam_opens, cam_releases, disc_log, reacks >>

\* lines 67-69 then 300-301: connect raised; start_streaming returns False and
\* its finally clause (line 326) calls disconnect
ConnectFail ==
  /\ pc = "connecting" /\ MainRuns
  /\ ss_result' = "false"
  /\ pc' = "d332" /\ dret' = "L326"
  /\ UNCHANGED << clientVars, connection_start, start_time, m_deadline,
                  auth_result, prodVars, consVars, envVars, histVars >>


\* ------------------------------------------------------------------------
\* authenticate
\* ------------------------------------------------------------------------
\* start_streaming going on to open_camera whatever authenticate returned
AuthReturnFalseIgnored(why) ==
  /\ auth_result' = why
  /\ start_time' = 0 /\ m_deadline' = 0
  /\ pc' = "open_camera"
  /\ UNCHANGED << dret, ss_result >>

\* authenticate returns False (lines 75, 97, 103, 107); start_streaming line
\* 305 then calls disconnect
AuthReturnFalse(why) ==
  /\ auth_result' = why
  /\ start_time' = 0 /\ m_deadline' = 0
  /\ pc' = "d332" /\ dret' = "L305"
  /\ UNCHANGED ss_result

\* lines 74-80: await websocket.send(auth request)
AuthBegin ==
  /\ pc = "authenticate" /\ MainRuns
  /\ IF websocket = "None"
       THEN AuthReturnFalse("error")
       ELSE /\ pc' = "auth_sending"
            /\ UNCHANGED << dret, ss_result, start_time, m_deadline, auth_result >>
  /\ UNCHANGED << clientVars, connection_start, prodVars, consVars, envVars, histVars >>

\* lines 78-84: the send returns (start_time = time.time()) or raises (line 105)
AuthSendDone ==
  /\ pc = "auth_sending" /\ MainRuns
  /\ IF TransportDead
       THEN AuthReturnFalse("error")
       ELSE /\ start_time' = Now
            /\ pc' = "auth_loop"
            /\ UNCHANGED << dret, ss_result, m_deadline, auth_result >>
  /\ UNCHANGED << clientVars, connection_start, prodVars, consVars, envVars, histVars >>

\* the subtraction the wrong way round
AuthWindowOpenSwapped == start_time - Now < timeout

\* line 86: while time.time() - start_time < timeout
AuthWindowOpen == Now - start_time < timeout

\* lines 86-88 and 102-103: next poll, or "Authentication timeout"
AuthLoop ==
  /\ pc = "auth_loop" /\ MainRuns
  /\ IF AuthWindowOpen
       THEN /\ m_deadline' = Now + recv_timeout
            /\ pc' = "auth_recv"
            /\ UNCHANGED << dret, ss_result, start_time, auth_result >>
       ELSE AuthReturnFalse("timeout")
  /\ UNCHANGED << clientVars, connection_start, prodVars, consVars, envVars, histVars >>

\* lines 88, 99-100: wait_for timed out after 1.0 s: continue
AuthRecvTimeout ==
  /\ pc = "auth_recv" /\ MainRuns
  /\ m_deadline <= Now
  /\ pc' = "auth_loop"
  /\ UNCHANGED << clientVars, connection_start, dret, ss_result, start_time,
                  m_deadline, auth_result, prodVars, consVars, envVars, histVars >>

\* lines 89-97, 105: what authenticate makes of a received message.
\* json.loads or data["type"] raising is caught at line 105
AuthVerdict(m) ==
  IF m.shape # "object" \/ m.type = "missing" THEN "error"
  ELSE IF m.type = "auth_success" THEN "ok"
  ELSE IF m.type = "error" THEN "rejected"
  ELSE "continue"

\* lines 88-97, 105-107: a message arrived
AuthRecvMsg ==
  /\ pc = "auth_recv" /\ MainRuns /\ CanReceive
  /\ \E m \in Messages :
       /\ inbox' = inbox - 1
       /\ IF AuthVerdict(m) = "ok"
            THEN /\ is_authenticated' = TRUE
                 /\ auth_result' = "ok"
                 /\ start_time' = 0 /\ m_deadline' = 0
                 /\ pc' = "open_camera"
                 /\ UNCHANGED << dret, ss_result >>
            ELSE IF AuthVerdict(m) = "continue"
            THEN /\ pc' = "auth_loop"
                 /\ UNCHANGED << is_authenticated, dret, ss_result, start_time,
                                 m_deadline, auth_result >>
            ELSE /\ AuthReturnFalse(AuthVerdict(m))
                 /\ UNCHANGED is_authenticated
  /\ UNCHANGED << frame_rate, websocket, is_streaming, frame_count, server_buffer,
                  send_times, ack_times, camera, connection_start, prodVars,
                  consVars, link, device_held, budget, histVars >>

\* lines 88, 105-107: recv raised ConnectionClosed
AuthRecvRaise ==
  /\ pc = "auth_recv" /\ MainRuns /\ TransportDead
  /\ AuthReturnFalse("error")
  /\ UNCHANGED << clientVars, connection_start, prodVars, consVars, envVars, histVars >>

\* ------------------------------------------------------------------------
\* open_camera
\* ------------------------------------------------------------------------
\* lines 111-129 and 309-311.  how: "raise" (VideoCapture(0) raised, camera
\* stays None), "unopened" (isOpened() false), "opened"
OpenCamera ==
  /\ pc = "open_camera" /\ MainRuns
  /\ \E how \in {"raise", "unopened", "opened"} :
       /\ camera' = IF how = "raise" THEN camera ELSE how
       /\ device_held' = (how = "opened")
       /\ cam_opens' = IF how = "opened" THEN cam_opens + 1 ELSE cam_opens
       /\ IF how = "opened"
            THEN pc' = "start_stream" /\ UNCHANGED dret
            ELSE pc' = "d332" /\ dret' = "L310"
  /\ UNCHANGED << frame_rate, websocket, is_authenticated, is_streaming,
                  frame_count, server_buffer, send_times, ack_times,
                  connection_start, ss_result, start_time, m_deadline,
                  auth_result, prodVars, consVars, link, budget, inbox, tx,
                  skipped, ws_opens, ws_closes, cam_releases, disc_log, reacks >>

\* ------------------------------------------------------------------------
\* start_streaming: the streaming phase
\* ------------------------------------------------------------------------
\* lines 314-318: set the flag, create both tasks, await gather
StartStream ==
  /\ pc = "start_stream" /\ MainRuns
  /\ is_streaming' = TRUE
  /\ ppc' = "ready" /\ cpc' = "ready"
  /\ pc' = "gather"
  /\ UNCHANGED << frame_rate, websocket, is_authenticated, frame_count,
                  server_buffer, send_times, ack_times, camera, connection_start,
                  dret, ss_result, start_time, m_deadline, auth_result,
                  last_frame_time, sleep_until, c_deadline, c_exit,
                  envVars, histVars >>

\* lines 318-320, 325-326: both loops returned; return True, then finally
GatherDone ==
  /\ pc = "gather" /\ MainRuns
  /\ ppc = "done" /\ cpc = "done"
  /\ ss_result' = "true"
  /\ pc' = "d332" /\ dret' = "L326"
  /\ UNCHANGED << clientVars, connection_start, start_time, m_deadline,
                  auth_result, prodVars, consVars, envVars, histVars >>

\* lines 318, 322-326: stream_frames raised; gather re-raises at once while
\* handle_messages keeps running; except Exception: return False, then finally
GatherRaised ==
  /\ pc = "gather" /\ MainRuns
  /\ ppc = "raised"
  /\ ss_result' = "false"
  /\ pc' = "d332" /\ dret' = "L326"
  /\ UNCHANGED << clientVars, connection_start, start_time, m_deadline,
                  auth_result, prodVars, consVars, envVars, histVars >>


\* disconnect without line 332: the flag is left as it is
Disc332KeepFlag ==
  /\ pc = "d332" /\ MainRuns
  /\ pc' = "d335"
  /\ UNCHANGED << clientVars, connection_start, dret, ss_result, start_time,
                  m_deadline, auth_result, prodVars, consVars, envVars, histVars >>

\* ------------------------------------------------------------------------
\* disconnect
\* ------------------------------------------------------------------------
\* line 332: self.is_streaming = False
Disc332 ==
  /\ pc = "d332" /\ MainRuns
  /\ is_streaming' = FALSE
  /\ pc' = "d335"
  /\ UNCHANGED << frame_rate, websocket, is_authenticated, frame_count,
                  server_buffer, send_times, ack_times, camera, connection_start,
                  dret, ss_result, start_time, m_deadline, auth_result,
                  prodVars, consVars, envVars, histVars >>

\* line 335: if self.camera
CameraHeld == camera # "None"

\* lines 335-338: release the camera and forget the handle
Disc335 ==
  /\ pc = "d335" /\ MainRuns
  /\ IF CameraHeld
       THEN /\ cam_releases' = IF device_held THEN cam_releases + 1 ELSE cam_releases
            /\ device_held' = FALSE
            /\ camera' = "None"
       ELSE UNCHANGED << cam_releases, device_held, camera >>
  /\ pc' = "d341"
  /\ UNCHANGED << frame_rate, websocket, is_authenticated, is_streaming,
                  frame_count, server_buffer, send_times, ack_times,
                  connection_start, dret, ss_result, start_time, m_deadline,
                  auth_result, prodVars, consVars, link, budget, inbox, tx,
                  skipped, ws_opens, ws_closes, cam_opens, disc_log, reacks >>

\* closing only a transport that was authenticated
TransportHeldAuthenticated == websocket # "None" /\ is_authenticated

\* line 341: if self.websocket
TransportHeld == websocket # "None"

\* lines 341-342: await self.websocket.close()
Disc341 ==
  /\ pc = "d341" /\ MainRuns
  /\ pc' = IF TransportHeld THEN "closing" ELSE "d347"
  /\ UNCHANGED << clientVars, connection_start, dret, ss_result, start_time,
                  m_deadline, auth_result, prodVars, consVars, envVars, histVars >>

\* line 342: the transport is closed; the main task is ready to resume
CloseDone ==
  /\ pc = "closing" /\ MainRuns
  /\ link' = "closed" /\ ws_closes' = ws_closes + 1
  /\ pc' = "closed"
  /\ UNCHANGED << clientVars, connection_start, dret, ss_result, start_time,
                  m_deadline, auth_result, prodVars, consVars, device_held,
                  budget, inbox, tx, skipped, ws_opens, cam_opens, cam_releases,
                  disc_log, reacks >>

\* lines 343-344: self.websocket = None
Disc343 ==
  /\ pc = "closed" /\ MainRuns
  /\ websocket' = "None"
  /\ pc' = "d347"
  /\ UNCHANGED << frame_rate, is_authenticated, is_streaming, frame_count,
                  server_buffer, send_times, ack_times, camera, connection_start,
                  dret, ss_result, start_time, m_deadline, auth_result,
                  prodVars, consVars, envVars, histVars >>

\* lines 347-354: the statistics divide frame_count by duration; Python
\* raises ZeroDivisionError when duration is 0
StatsFault ==
  /\ connection_start # None
  /\ Now - connection_start[1] = 0

\* lines 347-354 and the return to the caller of disconnect:
\*   L305, L310 (in the try of start_streaming): returning or raising, the
\*     function goes on to its finally clause at line 326 with result False;
\*   L326 (finally of start_streaming): back in main, whose finally clause
\*     (line 384) calls disconnect again; a fault replaces the result;
\*   L384 (finally of main): main returns, or the fault leaves main
Disc347 ==
  /\ pc = "d347" /\ MainRuns
  /\ disc_log' = Append(disc_log, [site |-> dret, fault |-> StatsFault])
  /\ IF dret \in {"L305", "L310"}
       THEN /\ ss_result' = "false"
            /\ pc' = "d332" /\ dret' = "L326"
       ELSE IF dret = "L326"
       THEN /\ ss_result' = IF StatsFault THEN "raised" ELSE ss_result
            /\ pc' = "d332" /\ dret' = "L384"
       ELSE /\ pc' = IF StatsFault THEN "crashed" ELSE "exit"
            /\ dret' = "none"
            /\ UNCHANGED ss_result
  /\ UNCHANGED << clientVars, connection_start, start_time, m_deadline,
                  auth_result, prodVars, consVars, envVars, tx, skipped,
                  ws_opens, ws_closes, cam_opens, cam_releases, reacks >>


\* ------------------------------------------------------------------------
\* send_times (dict) and ack_times (list)
\* ------------------------------------------------------------------------
Put(d, k, v) == [x \in (DOMAIN d) \cup {k} |-> IF x = k THEN v ELSE d[x]]
Del(d, ks) == [x \in (DOMAIN d) \ ks |-> d[x]]
Range(q) == {q[i] : i \in DOMAIN q}

RECURSIVE SortRange(_, _, _)
\* the members of S between lo and hi, ascending
SortRange(S, lo, hi) ==
  IF lo > hi THEN << >>
  ELSE IF lo = hi THEN (IF lo \in S THEN << lo >> ELSE << >>)
  ELSE LET mid == (lo + hi) \div 2
       IN SortRange(S, lo, mid) \o SortRange(S, mid + 1, hi)

\* sorted(keys)
Sorted(S) ==
  IF S = {} THEN << >>
  ELSE LET lo == CHOOSE k \in S : \A j \in S : k <= j
           hi == CHOOSE k \in S : \A j \in S : k >= j
       IN SortRange(S, lo, hi)

\* the slice [1000:] in place of [:-1000]: the newest keys are dropped
OldKeysNewest(d) ==
  LET keys == Sorted(DOMAIN d)
  IN SubSeq(keys, SEND_TIMES_KEEP + 1, Len(keys))

\* line 168: old_keys = sorted(self.send_times.keys())[:-1000]
OldKeys(d) ==
  LET keys == Sorted(DOMAIN d)
  IN SubSeq(keys, 1, Len(keys) - SEND_TIMES_KEEP)

\* lines 164-170: insert the send time, then trim to the last 1000 keys
RecordSend(d, n, t) ==
  LET ins == Put(d, n, t)
  IN IF Cardinality(DOMAIN ins) > SEND_TIMES_KEEP
       THEN Del(ins, Range(OldKeys(ins)))
       ELSE ins

\* pop() in place of pop(0): the newest sample is dropped
RecordLatencyPopLast(q, x) ==
  LET app == Append(q, x)
  IN IF Len(app) > ACK_TIMES_KEEP THEN SubSeq(app, 1, Len(app) - 1) ELSE app

\* lines 208-212: append the latency, keep only the last 50
RecordLatency(q, x) ==
  LET app == Append(q, x)
  IN IF Len(app) > ACK_TIMES_KEEP THEN Tail(app) ELSE app

\* the factor 1000 left out: the latency in seconds
AckLatencySeconds(receive_time, send_time) ==
  (receive_time - send_time) \div TicksPerSecond

\* lines 205-207: (receive_time - send_time) * 1000, in milliseconds
AckLatency(receive_time, send_time) ==
  ((receive_time - send_time) * MS_PER_SECOND) \div TicksPerSecond

\* ------------------------------------------------------------------------
\* stream_frames (producer)
\* ------------------------------------------------------------------------
\* line 271: frame_interval = 1.0 / self.frame_rate, in ticks
frame_interval == TicksPerSecond \div frame_rate

\* lines 271-272: first run of the task; frame_rate = 0 raises outside the
\* loop's try, so stream_frames ends with ZeroDivisionError
ProdStart ==
  /\ ppc = "ready" /\ ProdRuns
  /\ IF frame_rate = 0
       THEN ppc' = "raised" /\ UNCHANGED last_frame_time
       ELSE ppc' = "head" /\ last_frame_time' = Now
  /\ UNCHANGED << clientVars, connection_start, mainVars, sleep_until,
                  consVars, envVars, histVars >>

\* line 274: while self.is_streaming
ProdHead ==
  /\ ppc = "head" /\ ProdRuns
  /\ ppc' = IF is_streaming THEN "capture" ELSE "done"
  /\ UNCHANGED << clientVars, connection_start, mainVars, last_frame_time,
                  sleep_until, consVars, envVars, histVars >>

\* time a blocking camera read takes: less than a tick, or a second
ReadDelays == {0, TicksPerSecond}

\* lines 277-278 and capture_frame (131-152): a blocking read of d ticks that
\* delivers a frame (ok) or not; nothing is delivered without the device
ProdCapture ==
  /\ ppc = "capture" /\ ProdRuns
  /\ \E d \in ReadDelays, ok \in BOOLEAN :
       /\ ok => (camera = "opened" /\ device_held /\ budget > 0)
       /\ budget' = IF ok THEN budget - 1 ELSE budget
       /\ ppc' = IF ok THEN "send_frame" ELSE "pace"
       /\ skipped' = (skipped \/ ~ok)
       /\ Elapse(d)
  /\ UNCHANGED << frame_rate, websocket, is_authenticated, is_streaming,
                  frame_count, server_buffer, ack_times, camera, pc, dret,
                  ss_result, auth_result, cpc, c_exit, link, device_held, inbox,
                  tx, ws_opens, ws_closes, cam_opens, cam_releases, disc_log, reacks >>

\* a failed capture uses up a number as well
NextFrameNumberAfterSkip == IF skipped THEN frame_count + 2 ELSE frame_count + 1

\* line 160: self.frame_count += 1
NextFrameNumber == frame_count + 1

\* send_frame lines 156-181, up to the await of websocket.send
ProdSendFrame ==
  /\ ppc = "send_frame" /\ ProdRuns
  /\ IF websocket = "None" \/ ~is_authenticated
       THEN /\ ppc' = "pace"
            /\ UNCHANGED << frame_count, send_times, tx, skipped >>
       ELSE /\ frame_count' = NextFrameNumber
            /\ send_times' = RecordSend(send_times, frame_count', Now)
            /\ tx' = Append(tx, [frame_number |-> frame_count', st |-> "pending",
                                 after_skip |-> skipped])
            /\ skipped' = FALSE
            /\ ppc' = "send"
  /\ UNCHANGED << frame_rate, websocket, is_authenticated, is_streaming,
                  server_buffer, ack_times, camera, connection_start, mainVars,
                  last_frame_time, sleep_until, consVars, envVars, ws_opens,
                  ws_closes, cam_opens, cam_releases, disc_log, reacks >>

\* send_frame letting the send error through: stream_frames ends with it
ProdSendDoneRaises ==
  /\ ppc = "send" /\ ProdRuns
  /\ tx' = [tx EXCEPT ![Len(tx)].st = IF TransportDead THEN "failed" ELSE "sent"]
  /\ ppc' = IF TransportDead THEN "raised" ELSE "pace"
  /\ UNCHANGED << clientVars, connection_start, mainVars, last_frame_time,
                  sleep_until, consVars, envVars, skipped, ws_opens, ws_closes,
                  cam_opens, cam_releases, disc_log, reacks >>

\* lines 172-187: websocket.send returns, or raises and send_frame logs it
ProdSendDone ==
  /\ ppc = "send" /\ ProdRuns
  /\ tx' = [tx EXCEPT ![Len(tx)].st = IF TransportDead THEN "failed" ELSE "sent"]
  /\ ppc' = "pace"
  /\ UNCHANGED << clientVars, connection_start, mainVars, last_frame_time,
                  sleep_until, consVars, envVars, skipped, ws_opens, ws_closes,
                  cam_opens, cam_releases, disc_log, reacks >>

\* sleeping the whole interval whatever the iteration took
SleepTimeWholeInterval(now, last) == frame_interval

\* lines 283-285: sleep_time = max(0, frame_interval - elapsed)
SleepTime(now, last) == Max(0, frame_interval - (now - last))

\* lines 283-290: pace the loop; without a sleep the loop goes on at once
ProdPace ==
  /\ ppc = "pace" /\ ProdRuns
  /\ IF SleepTime(Now, last_frame_time) > 0
       THEN /\ sleep_until' = Now + SleepTime(Now, last_frame_time)
            /\ ppc' = "sleep"
            /\ UNCHANGED last_frame_time
       ELSE /\ last_frame_time' = Now
            /\ ppc' = "head"
            /\ UNCHANGED sleep_until
  /\ UNCHANGED << clientVars, connection_start, mainVars, consVars, envVars,
                  histVars >>

\* lines 288-290: asyncio.sleep is over; last_frame_time = time.time()
ProdWake ==
  /\ ppc = "sleep" /\ ProdRuns
  /\ sleep_until <= Now
  /\ last_frame_time' = Now
  /\ ppc' = "head"
  /\ UNCHANGED << clientVars, connection_start, mainVars, sleep_until,
                  consVars, envVars, histVars >>


\* ------------------------------------------------------------------------
\* handle_messages (consumer)
\* ------------------------------------------------------------------------
\* line 192: while self.is_streaming and self.websocket
ConsLoopCond == is_streaming /\ websocket # "None"

\* lines 192-194: loop test, then await wait_for(recv(), timeout=1.0)
ConsHead ==
  /\ cpc \in {"ready", "head"} /\ ConsRuns
  /\ IF ConsLoopCond
       THEN /\ c_deadline' = Now + recv_timeout
            /\ cpc' = "recv"
            /\ UNCHANGED c_exit
       ELSE /\ cpc' = "done" /\ c_exit' = "cond"
            /\ UNCHANGED c_deadline
  /\ UNCHANGED << clientVars, connection_start, mainVars, prodVars, envVars,
                  histVars >>

\* lines 260-261: asyncio.TimeoutError: continue
ConsRecvTimeout ==
  /\ cpc = "recv" /\ ConsRuns
  /\ c_deadline <= Now
  /\ cpc' = "head"
  /\ UNCHANGED << clientVars, connection_start, mainVars, prodVars, c_deadline,
                  c_exit, envVars, histVars >>

\* lines 194, 266-267: recv raised ConnectionClosed; the handler returns and
\* leaves is_streaming as it is
ConsRecvRaise ==
  /\ cpc = "recv" /\ ConsRuns /\ TransportDead
  /\ cpc' = "done" /\ c_exit' = "closed" /\ c_deadline' = 0
  /\ UNCHANGED << clientVars, connection_start, mainVars, prodVars, envVars,
                  histVars >>

\* line 204: if frame_num in self.send_times
IsPending(fn) == fn # None /\ fn[1] \in DOMAIN send_times

\* send_times.get(frame_num, receive_time) in place of the membership test:
\* a frame that is not pending yields a latency of 0
OnFrameReceivedDefault(m) ==
  /\ IF m.frame_number # None
       THEN /\ ack_times' = RecordLatency(ack_times,
                               AckLatency(Now, IF IsPending(m.frame_number)
                                                 THEN send_times[m.frame_number[1]]
                                                 ELSE Now))
            /\ send_times' = Del(send_times, {m.frame_number[1]})
       ELSE UNCHANGED << ack_times, send_times >>
  /\ server_buffer' = IF m.total_frames = None THEN 0 ELSE m.total_frames[1]
  /\ IF m.frame_number = None
       THEN cpc' = "done" /\ c_exit' = "fault"
       ELSE cpc' = "head" /\ UNCHANGED c_exit
  /\ UNCHANGED is_streaming

\* line 214 left out: an acknowledged frame stays pending
OnFrameReceivedKeepsKey(m) ==
  /\ IF IsPending(m.frame_number)
       THEN /\ ack_times' = RecordLatency(ack_times,
                               AckLatency(Now, send_times[m.frame_number[1]]))
            /\ UNCHANGED send_times
       ELSE UNCHANGED << ack_times, send_times >>
  /\ server_buffer' = IF m.total_frames = None THEN 0 ELSE m.total_frames[1]
  /\ IF m.frame_number = None
       THEN cpc' = "done" /\ c_exit' = "fault"
       ELSE cpc' = "head" /\ UNCHANGED c_exit
  /\ UNCHANGED is_streaming

\* lines 200-229: frame_received.  A message without frame_number faults at
\* line 219 (None % 50) after server_buffer was written; the fault is caught
\* at line 266, outside the loop
OnFrameReceived(m) ==
  /\ IF IsPending(m.frame_number)
       THEN /\ ack_times' = RecordLatency(ack_times,
                               AckLatency(Now, send_times[m.frame_number[1]]))
            /\ send_times' = Del(send_times, {m.frame_number[1]})
       ELSE UNCHANGED << ack_times, send_times >>
  /\ server_buffer' = IF m.total_frames = None THEN 0 ELSE m.total_frames[1]
  /\ IF m.frame_number = None
       THEN cpc' = "done" /\ c_exit' = "fault"
       ELSE cpc' = "head" /\ UNCHANGED c_exit
  /\ UNCHANGED is_streaming

\* break without clearing the flag
OnDisconnectKeepFlag ==
  /\ cpc' = "done" /\ c_exit' = "break"
  /\ UNCHANGED << is_streaming, ack_times, send_times, server_buffer >>

\* lines 253-258: disconnect: clear the flag and break
OnDisconnect ==
  /\ is_streaming' = FALSE
  /\ cpc' = "done" /\ c_exit' = "break"
  /\ UNCHANGED << ack_times, send_times, server_buffer >>

\* m acknowledges a frame that was sent and is not, or no longer, pending
Reack(m) ==
  /\ m.shape = "object" /\ m.type = "frame_received" /\ m.frame_number # None
  /\ m.frame_number[1] \in 1..frame_count
  /\ m.frame_number[1] \notin DOMAIN send_times

\* lines 194-264: message m arrived and is dispatched on its type
ConsDispatch(m) ==
  /\ cpc = "recv" /\ ConsRuns /\ CanReceive
  /\ inbox' = inbox - 1
  /\ c_deadline' = 0
  /\ IF m.shape = "malformed"
       \* json.JSONDecodeError, lines 262-264: continue
       THEN /\ cpc' = "head"
            /\ UNCHANGED << c_exit, is_streaming, ack_times, send_times,
                            server_buffer >>
       ELSE IF m.shape = "nonobject"
       \* data.get raises AttributeError, caught at line 266
       THEN /\ cpc' = "done" /\ c_exit' = "fault"
            /\ UNCHANGED << is_streaming, ack_times, send_times, server_buffer >>
       ELSE IF m.type = "frame_received" THEN OnFrameReceived(m)
       ELSE IF m.type = "disconnect" THEN OnDisconnect
       \* lines 237-246: result.get raises AttributeError, caught at line 266
       ELSE IF m.type = "processing_complete" /\ m.result # "object"
       THEN /\ cpc' = "done" /\ c_exit' = "fault"
            /\ UNCHANGED << is_streaming, ack_times, send_times, server_buffer >>
       \* processing_started, processing_complete, error: logged;
       \* any other type or none: ignored
       ELSE /\ cpc' = "head"
            /\ UNCHANGED << c_exit, is_streaming, ack_times, send_times,
                            server_buffer >>
  /\ reacks' = IF Reack(m) THEN reacks + 1 ELSE reacks
  /\ UNCHANGED << frame_rate, websocket, is_authenticated, frame_count, camera,
                  connection_start, mainVars, prodVars, link, device_held,
                  budget, tx, skipped, ws_opens, ws_closes, cam_opens,
                  cam_releases, disc_log >>

\* line 194: await wait_for(recv()) returns some message
ConsRecvMsg == \E m \in Messages : ConsDispatch(m)

\* ------------------------------------------------------------------------
\* Environment and the event loop
\* ------------------------------------------------------------------------
\* no timer of a parked task is overdue
NoTimerDue ==
  /\ pc = "auth_recv" => m_deadline > Now
  /\ ppc = "sleep" => sleep_until > Now
  /\ cpc = "recv" => c_deadline > Now

\* one tick passes while every task is parked at an await
Tick ==
  /\ MainParked /\ ProdParked /\ ConsParked
  /\ pc \notin {"exit", "crashed"}
  /\ NoTimerDue
  /\ Elapse(1)
  /\ UNCHANGED << frame_rate, websocket, is_authenticated, is_streaming,
                  frame_count, server_buffer, ack_times, camera, pc, dret,
                  ss_result, auth_result, ppc, cpc, c_exit, envVars, histVars >>

\* the connection drops: from now on recv and send raise
Drop ==
  /\ MainParked /\ ProdParked /\ ConsParked
  /\ link = "up"
  /\ link' = "down"
  /\ UNCHANGED << clientVars, connection_start, mainVars, prodVars, consVars,
                  device_held, budget, inbox, histVars >>

\* line 389: asyncio.run cancels a task that is still pending when main ends
CancelLeftover ==
  /\ pc \in {"exit", "crashed"}
  /\ cpc \in {"ready", "recv"}
  /\ cpc' = "cancelled" /\ c_exit' = "cancelled" /\ c_deadline' = 0
  /\ UNCHANGED << clientVars, connection_start, mainVars, prodVars, envVars,
                  histVars >>

\* ------------------------------------------------------------------------
\* Specification
\* ------------------------------------------------------------------------
MainStep ==
  \/ ConnectBegin \/ ConnectOk \/ ConnectFail
  \/ AuthBegin \/ AuthSendDone \/ AuthLoop \/ AuthRecvTimeout \/ AuthRecvRaise
  \/ OpenCamera \/ StartStream \/ GatherDone \/ GatherRaised
  \/ Disc332 \/ Disc335 \/ Disc341 \/ CloseDone \/ Disc343 \/ Disc347

ProdStep ==
  \/ ProdStart \/ ProdHead \/ ProdCapture \/ ProdSendFrame \/ ProdSendDone
  \/ ProdPace \/ ProdWake

ConsStep ==
  \/ ConsHead \/ ConsRecvTimeout \/ ConsRecvRaise

Next ==
  \/ MainStep \/ AuthRecvMsg
  \/ ProdStep
  \/ ConsStep \/ ConsRecvMsg
  \/ Tick \/ Drop \/ CancelLeftover

Spec == Init /\ [][Next]_vars

\* asyncio runs every ready task, timers fire, and connect, send and close
\* complete or fail; what the server sends and whether the link drops is
\* left to the environment
FairSpec ==
  /\ Spec
  /\ SF_vars(MainStep) /\ SF_vars(ProdStep) /\ SF_vars(ConsStep)
  /\ WF_vars(Tick) /\ WF_vars(CancelLeftover)


\* ------------------------------------------------------------------------
\* The streaming phase late in a session, where send_times and ack_times
\* are full.  The session so far: frames 1..TrackerAcked were sent and each
\* acknowledged in turn, then frames up to TrackerSent were sent and none
\* acknowledged; the producer is back at the head of its loop and the
\* consumer has just begun a receive.  The history variables start empty:
\* they record what happens from here on.
\* ------------------------------------------------------------------------
TrackerAcked == ACK_TIMES_KEEP
TrackerSent == TrackerAcked + SEND_TIMES_KEEP
TrackerSamples ==
  [i \in 1..TrackerAcked |-> AckLatency(Now, 0 - (i % (Horizon + 1)))]

InitTracker ==
  /\ frame_rate = 1
  /\ websocket = "ws" /\ is_authenticated = TRUE /\ is_streaming = TRUE
  /\ frame_count = TrackerSent /\ server_buffer = 0
  /\ connection_start = Some(0 - Horizon)
  /\ send_times = [k \in (TrackerAcked + 1)..TrackerSent |->
                     IF k = TrackerSent THEN Now ELSE 0 - Horizon]
  /\ ack_times = TrackerSamples
  /\ camera = "opened"
  /\ pc = "gather" /\ dret = "none" /\ ss_result = "none"
  /\ start_time = 0 /\ m_deadline = 0
  /\ ppc = "head" /\ last_frame_time = Now /\ sleep_until = 0
  /\ cpc = "recv" /\ c_deadline = Now + recv_timeout /\ c_exit = "none"
  /\ link = "up" /\ device_held = TRUE /\ budget = TrackerFrames /\ inbox = TrackerMsgs
  /\ tx = << >> /\ skipped = FALSE
  /\ ws_opens = 1 /\ ws_closes = 0 /\ cam_opens = 1 /\ cam_releases = 0
  /\ disc_log = << >> /\ reacks = 0 /\ auth_result = "ok"

\* Both loops run; the connection stays up, and time passes only while a
\* camera read blocks (so a producer that goes to sleep stays asleep).
TrackerNext ==
  \/ ProdHead \/ ProdCapture \/ ProdSendFrame \/ ProdSendDone \/ ProdPace
  \/ ConsHead \/ ConsRecvTimeout \/ ConsRecvMsg

TrackerSpec == InitTracker /\ [][TrackerNext]_vars


\* ------------------------------------------------------------------------
\* The streaming phase from its first moment: connect, authenticate and
\* open_camera have succeeded, start_streaming has set the flag and created
\* both tasks, and the server has MaxMsgs messages to send while streaming.
\* ------------------------------------------------------------------------
InitStream ==
  /\ frame_rate \in FrameRates
  /\ websocket = "ws" /\ is_authenticated = TRUE /\ is_streaming = TRUE
  /\ frame_count = 0 /\ server_buffer = 0
  /\ connection_start = Some(0 - Horizon)
  /\ send_times = << >> /\ ack_times = << >> /\ camera = "opened"
  /\ pc = "gather" /\ dret = "none" /\ ss_result = "none"
  /\ start_time = 0 /\ m_deadline = 0
  /\ ppc = "ready" /\ last_frame_time = 0 /\ sleep_until = 0
  /\ cpc = "ready" /\ c_deadline = 0 /\ c_exit = "none"
  /\ link = "up" /\ device_held = TRUE /\ budget = MaxFrames /\ inbox = MaxMsgs
  /\ tx = << >> /\ skipped = FALSE
  /\ ws_opens = 1 /\ ws_closes = 0 /\ cam_opens = 1 /\ cam_releases = 0
  /\ disc_log = << >> /\ reacks = 0 /\ auth_result = "ok"

\* the two loops, the clock and the connection, up to the end of gather
StreamNext ==
  \/ ProdStep
  \/ ConsStep \/ ConsRecvMsg
  \/ Tick \/ Drop

StreamSpec == InitStream /\ [][StreamNext]_vars


\* ========================================================================
\* Properties
\* ========================================================================

\* C1: send_times never holds more than 1000 entries, and a send_frame that
\* trims it removes exactly the lowest frame numbers present: every removed
\* key is below every key that is kept, and 1000 keys are kept.
C1_SendTimesBounded ==
  /\ [](Cardinality(DOMAIN send_times) <= SEND_TIMES_KEEP)
  /\ [][frame_count' # frame_count =>
          LET present == (DOMAIN send_times) \cup {frame_count'}
              kept == DOMAIN send_times'
              evicted == present \ kept
          IN /\ kept \subseteq present
             /\ \A e \in evicted : \A k \in kept : e < k
             /\ evicted # {} => Cardinality(kept) = SEND_TIMES_KEEP]_vars

\* C1 witness: no message was handled, one more frame was sent, and the
\* lowest pending frame is gone from the full map
C1_Evicted ==
  /\ inbox = TrackerMsgs
  /\ frame_count = TrackerSent + 1
  /\ Cardinality(DOMAIN send_times) = SEND_TIMES_KEEP
  /\ (TrackerAcked + 1) \notin DOMAIN send_times

\* C2: ack_times never holds more than 50 samples; an acknowledgement of a
\* pending frame (its key leaves send_times) puts the new sample at the tail
\* and, at 50 samples, drops the head, the oldest one.
C2_AckTimesBounded ==
  /\ [](Len(ack_times) <= ACK_TIMES_KEEP)
  /\ [][(frame_count' = frame_count /\ DOMAIN send_times' # DOMAIN send_times) =>
          /\ Len(ack_times') > 0
          /\ ack_times' =
               IF Len(ack_times) < ACK_TIMES_KEEP
                 THEN Append(ack_times, ack_times'[Len(ack_times')])
                 ELSE Append(Tail(ack_times), ack_times'[Len(ack_times')])]_vars

\* C2 witness: the list is full, the oldest sample of the full list is gone
\* and the others moved up by one
C2_OldestDropped ==
  /\ Len(ack_times) = ACK_TIMES_KEEP
  /\ inbox < TrackerMsgs
  /\ SubSeq(ack_times, 1, ACK_TIMES_KEEP - 1) = SubSeq(TrackerSamples, 2, ACK_TIMES_KEEP)

\* C3: the k-th frame message built carries frame_number k, and frame_count
\* is the number of frame messages built: a failed capture uses no number.
C3_FrameNumbersGapless ==
  /\ Len(tx) = frame_count
  /\ \A k \in DOMAIN tx : tx[k].frame_number = k

\* C3 witness: a second or later frame was numbered after a failed capture
C3_NumberedAfterSkip ==
  \E k \in DOMAIN tx : k >= 2 /\ tx[k].after_skip

\* C4: handling a frame_received message whose frame_number is not a key of
\* send_times leaves ack_times and send_times as they are and writes
\* total_frames (0 when absent) to server_buffer.
C4_UnknownAckNoLatency ==
  [][\A m \in Messages :
       (m.type = "frame_received" /\ ~IsPending(m.frame_number) /\ ConsDispatch(m)) =>
         /\ ack_times' = ack_times
         /\ send_times' = send_times
         /\ server_buffer' = IF m.total_frames = None THEN 0 ELSE m.total_frames[1]]_vars

\* C4 witness: after frame TrackerAcked + 1 was trimmed from send_times a
\* frame_received message was handled (server_buffer written), and no sample
\* was added and no key removed
C4_AckAfterEviction ==
  /\ frame_count = TrackerSent + 1
  /\ inbox = TrackerMsgs - 1
  /\ server_buffer \in BacklogValues
  /\ ack_times = TrackerSamples
  /\ Cardinality(DOMAIN send_times) = SEND_TIMES_KEEP


\* authenticate is running
InAuthenticate == pc \in {"authenticate", "auth_sending", "auth_loop", "auth_recv"}

\* C5: authenticate always returns.  A poll begins only inside the window
\* and lasts at most recv_timeout, so the loop is left no later than
\* timeout + recv_timeout after start_time; a return by timeout leaves
\* is_authenticated false.
C5_AuthenticateTerminates ==
  /\ InAuthenticate ~> ~InAuthenticate
  /\ [](pc \in {"auth_loop", "auth_recv"} =>
          Now - start_time < timeout + recv_timeout)
  /\ [](auth_result = "timeout" => ~is_authenticated /\ ~InAuthenticate)

\* C5 witness: every message the server had was received, none of them a
\* success or an error, and authenticate gave up
C5_TimedOut ==
  /\ auth_result = "timeout"
  /\ inbox = 0
  /\ ~is_authenticated

\* a call of disconnect has returned, or faulted, and nothing ran since
DisconnectReturned == Len(disc_log) > 0 /\ pc \in {"d332", "exit", "crashed"}

\* C6: no call of disconnect faults; the camera is released at most once per
\* open and the transport closed at most once per connect; when disconnect
\* is over the flag is false and both handles are None.
C6_DisconnectIdempotent ==
  /\ \A i \in DOMAIN disc_log : ~disc_log[i].fault
  /\ cam_releases <= cam_opens
  /\ ws_closes <= ws_opens
  /\ DisconnectReturned => ~is_streaming /\ camera = "None" /\ websocket = "None"

\* the session is over: main returned or was left by an exception
SessionEnded == pc \in {"exit", "crashed"}

\* C7: from a disconnect message on, the flag is false and the consumer has
\* returned, no further message is taken, the producer numbers no further
\* frame and returns (it can have raised only on 1.0 / frame_rate), and the
\* session ends with one release and one close.
C7_ServerDisconnectEndsSession ==
  /\ [](c_exit = "break" => ~is_streaming /\ cpc = "done")
  /\ [][c_exit = "break" => inbox' = inbox /\ frame_count' = frame_count
                            /\ Len(tx') = Len(tx)]_vars
  /\ c_exit = "break" ~> (SessionEnded /\ ppc \in {"done", "raised"}
                          /\ cam_releases = 1 /\ ws_closes = 1)
  /\ [](c_exit = "break" /\ ppc = "raised" => frame_rate = 0)
  /\ [](cam_releases <= 1 /\ ws_closes <= 1)

\* C7 witness: a session that sent a frame, was told to disconnect and ended
C7_EndedByServer ==
  /\ c_exit = "break" /\ pc = "exit" /\ ppc = "done"
  /\ Len(tx) > 0
  /\ cam_releases = 1 /\ ws_closes = 1

\* C8: after an error answer to the authentication request the session goes
\* to disconnect; no frame is numbered or sent, the flag is never set and
\* neither loop starts.  A frame is numbered and its send completes only
\* with the handle set, the connection up (for the send) and
\* is_authenticated true.
C8_NoFrameWithoutAuth ==
  /\ [](auth_result = "rejected" =>
          /\ tx = << >> /\ frame_count = 0
          /\ ~is_streaming /\ ~is_authenticated
          /\ ppc = "idle" /\ cpc = "idle"
          /\ pc \in {"d332", "d335", "d341", "closing", "closed", "d347",
                     "exit", "crashed"})
  /\ [][Len(tx') > Len(tx) => websocket = "ws" /\ is_authenticated]_vars
  /\ [][\A k \in DOMAIN tx :
          (tx[k].st # "sent" /\ tx'[k].st = "sent") =>
            websocket = "ws" /\ link = "up" /\ is_authenticated]_vars

\* C8 witness: the server refused the authentication and the session ended
C8_Rejected ==
  /\ auth_result = "rejected" /\ pc = "exit"
  /\ ws_opens = 1 /\ ws_closes = 1

\* start_streaming has returned or raised: main is in its finally clause
StartStreamingReturned == dret = "L384" \/ SessionEnded

\* C9: once start_streaming is over the camera is not held, the connection
\* is not open, every open was matched by a release or a close, and both
\* handles are None.
C9_ResourcesReleased ==
  StartStreamingReturned =>
    /\ ~device_held /\ cam_releases = cam_opens
    /\ link \in {"none", "closed"} /\ ws_closes = ws_opens
    /\ camera = "None" /\ websocket = "None"

\* C9 witness: stream_frames raised, and start_streaming returned with the
\* camera released and the transport closed
C9_ReleasedAfterException ==
  /\ StartStreamingReturned /\ ppc = "raised"
  /\ cam_opens = 1 /\ cam_releases = 1
  /\ ws_opens = 1 /\ ws_closes = 1

\* C10: once the connection has dropped during streaming, with both loops
\* still running, both loops return and disconnect runs.
C10_DropEndsSession ==
  (link = "down" /\ is_streaming /\ pc = "gather" /\ c_exit = "none")
    ~> (ppc \in {"done", "raised"} /\ cpc \in {"done", "cancelled"}
        /\ Len(disc_log) > 0)

\* total_frames of message m as line 216 reads it: data.get("total_frames", 0)
ReportedBacklog(m) == IF m.total_frames = None THEN 0 ELSE m.total_frames[1]

\* C11: handling a frame_received message for a pending frame n appends one
\* sample, (receive time - send_times[n]) in milliseconds and never negative,
\* removes exactly key n from send_times, and every frame_received message,
\* pending or not, sets server_buffer to its total_frames.
C11_AckRecordsLatency ==
  [][\A m \in Messages :
       (m.type = "frame_received" /\ ConsDispatch(m)) =>
         /\ server_buffer' = ReportedBacklog(m)
         /\ IsPending(m.frame_number) =>
              LET n == m.frame_number[1]
                  sample == ((Now - send_times[n]) * MS_PER_SECOND) \div TicksPerSecond
              IN /\ sample >= 0
                 /\ ack_times' = IF Len(ack_times) < ACK_TIMES_KEEP
                                   THEN Append(ack_times, sample)
                                   ELSE Append(Tail(ack_times), sample)
                 /\ DOMAIN send_times' = (DOMAIN send_times) \ {n}
                 /\ \A k \in DOMAIN send_times' : send_times'[k] = send_times[k]]_vars

\* C11 witness: frame 1 was acknowledged a second after it was sent
C11_AckedAfterASecond ==
  /\ frame_count = 1 /\ DOMAIN send_times = {}
  /\ ack_times = << MS_PER_SECOND >>
  /\ server_buffer \in BacklogValues

\* C12: when disconnect reaches its statistics with connection_start
\* recorded and a measured duration of 0, the call completes without fault.
C12_ZeroDurationGuarded ==
  [][(pc = "d347" /\ Len(disc_log') = Len(disc_log) + 1
      /\ connection_start # None /\ Now - connection_start[1] = 0)
       => ~disc_log'[Len(disc_log')].fault]_vars

\* C13: frame_count is the number of frame messages whose transmission did
\* not fail (a send still in progress is counted as succeeding), so a
\* send_frame whose transmission fails leaves no trace in frame_count.
C13_CountsSuccessfulSends ==
  frame_count = Cardinality({k \in DOMAIN tx : tx[k].st # "failed"})

\* C14: the step in which a send fails leaves the flag, the counter and the
\* main task as they are and takes the producer to its pacing; no number
\* is used twice; and once a frame was numbered the session stays in its
\* streaming phase, flag set, until a disconnect message arrives.
C14_SendFailureKeepsStreaming ==
  /\ [][\A k \in DOMAIN tx :
          (tx[k].st = "pending" /\ tx'[k].st = "failed") =>
            /\ is_streaming' = is_streaming
            /\ frame_count' = frame_count /\ Len(tx') = Len(tx)
            /\ pc' = pc /\ disc_log' = disc_log
            /\ ppc' = "pace"]_vars
  /\ [](\A j, k \in DOMAIN tx : tx[j].frame_number = tx[k].frame_number => j = k)
  /\ []((tx # << >> /\ c_exit # "break") =>
          (is_streaming /\ pc = "gather" /\ disc_log = << >>))

\* C14 witness: after a failed send the producer went on to the next frame
C14_NextFrameAfterFailure ==
  /\ is_streaming
  /\ \E k \in DOMAIN tx : tx[k].st = "failed" /\ k < Len(tx)

\* message m makes its handler fault: a JSON value that is not an object
\* (data.get raises), a frame_received without frame_number (None % 50) or
\* a processing_complete whose result is not an object (result.get raises)
FaultyMessage(m) ==
  \/ m.shape = "nonobject"
  \/ m.shape = "object" /\ m.type = "frame_received" /\ m.frame_number = None
  \/ m.shape = "object" /\ m.type = "processing_complete" /\ m.result # "object"

\* C15: a fault while the consumer handles a message is absorbed: the
\* consumer loop goes on to its next iteration with the flag as it was.
C15_ConsumerFaultAbsorbed ==
  [][\A m \in Messages :
       (FaultyMessage(m) /\ ConsDispatch(m)) =>
         (cpc' = "head" /\ is_streaming' = is_streaming)]_vars

\* message m is of a kind that is only logged or skipped
PassiveMessage(m) ==
  \/ m.shape = "malformed"
  \/ m.shape = "object"
       /\ m.type \in {"processing_started", "processing_complete", "error"}

\* C16: handling a processing_started, processing_complete or error
\* message, an unparseable payload or a receive timeout leaves the flag,
\* send_times, ack_times and server_buffer as they are and the consumer goes
\* on to its next iteration; the consumer clears the flag only when it
\* handles a disconnect message.
C16_OnlyDisconnectStops ==
  /\ [][\A m \in Messages :
          (PassiveMessage(m) /\ ConsDispatch(m)) =>
            /\ UNCHANGED << is_streaming, send_times, ack_times, server_buffer >>
            /\ cpc' = "head"]_vars
  /\ [][ConsRecvTimeout =>
          /\ UNCHANGED << is_streaming, send_times, ack_times, server_buffer >>
          /\ cpc' = "head"]_vars
  /\ [][(is_streaming /\ ~is_streaming' /\ cpc' # cpc) =>
          (\E m \in Messages : m.type = "disconnect" /\ ConsDispatch(m))]_vars

\* both loops are over
LoopsExited == ppc \in {"done", "raised"} /\ cpc \in {"done", "cancelled"}

\* C17: while the flag is clear no frame is numbered and no transmission is
\* begun, the producer is in no new iteration and leaves at its loop test,
\* the consumer begins no new receive and a receive in progress ends within
\* recv_timeout; once the flag is cleared after the loops were started, both
\* loops exit.
C17_CooperativeCancellation ==
  /\ [][~is_streaming => (frame_count' = frame_count /\ Len(tx') = Len(tx))]_vars
  /\ [](~is_streaming => ppc \notin {"capture", "send_frame"})
  /\ [][(~is_streaming /\ ppc = "head" /\ ppc' # ppc) => ppc' = "done"]_vars
  /\ [][(~is_streaming /\ cpc' # cpc) => cpc' # "recv"]_vars
  /\ [](cpc = "recv" => c_deadline <= Now + recv_timeout)
  /\ (~is_streaming /\ ppc # "idle") ~> LoopsExited

\* C17 witness: a disconnect message cleared the flag while frame 1 was under
\* way; the frame was sent, the camera had more frames, and both loops
\* exited without a second frame
C17_StoppedWithFramesLeft ==
  /\ c_exit = "break" /\ LoopsExited
  /\ Len(tx) = 1 /\ tx[1].st = "sent" /\ frame_count = 1
  /\ budget > 0

Phase(p) ==
  CASE p = "start" -> 0
    [] p = "connecting" -> 1
    [] p \in {"authenticate", "auth_sending", "auth_loop", "auth_recv"} -> 2
    [] p = "open_camera" -> 3
    [] p = "start_stream" -> 4
    [] p = "gather" -> 5
    [] p \in {"d332", "d335", "d341", "closing", "closed", "d347"} -> 6
    [] OTHER -> 7

C20_OneSamplePerFrame ==
  /\ [](DOMAIN send_times \subseteq 1..frame_count)
  /\ [][\A k \in (DOMAIN send_times') \ (DOMAIN send_times) :
          k = frame_count' /\ frame_count' = frame_count + 1]_vars
  /\ [](Len(ack_times) < ACK_TIMES_KEEP)
  /\ [](Len(ack_times) + Cardinality(DOMAIN send_times) <= frame_count)
  /\ [][reacks' # reacks => ack_times' = ack_times /\ send_times' = send_times]_vars

\* C20 witness: frame 1 was acknowledged twice and left one sample
C20_AckedTwice ==
  /\ frame_count = 1 /\ Len(ack_times) = 1
  /\ reacks = 1 /\ DOMAIN send_times = {}

====
